---------------------------- MODULE Spec2Model ----------------------------
(***************************************************************************)
(* temvote: the sensor-status cache of RoomStatusManager, its background   *)
(* refresh loop (cacheUpdater), and the vote/session transactions of       *)
(* RoomStatusTx.                                                           *)
(*                                                                         *)
(* Time is the wall clock in seconds.  It advances in steps of INTERVAL,   *)
(* the period of the ticker of cacheUpdater; the calls of time.Now() made  *)
(* inside one step of a handler read the same clock value.                 *)
(***************************************************************************)
EXTENDS Integers, Sequences, FiniteSets, Bags, TLC

\* ------------------------------------------------------------ constants
INTERVAL == 60
CACHE_EXPIRE == 180
\* updateSensorStatus: a reading is connected iff |now - lastUpdated| <= 60
ConnectedWithin == 60
\* updateSensorStatus: lastUpdated arrives in milliseconds
MsPerSecond == 1000

\* -------------------------------------------------------------- bounds
\* the clock advances at most MaxTicks times
MaxTicks == 3

StartTime == 10 * INTERVAL
Rooms == {"R1", "R2"}
Things == {"S1", "S2"}
Readers == {"q1"}
\* the contents of table thing(room_id, thing_name) a run may start with
ThingTables ==
    { {},
      {<<"R1", "S1">>, <<"R1", "S2">>},
      {<<"R1", "S2">>, <<"R2", "S1">>} }
AllRows == Rooms \X Things

None == "none"
EmptyMap == [x \in {} |-> None]

VARIABLES
    now,          \* wall clock, seconds
    tickC,        \* tick.C holds a tick (the ticker's channel has capacity 1)
    ctxDone,      \* ctx.Done() is closed
    thing,        \* table thing: set of <<room_id, thing_name>>
    session,      \* table session (committed): session_id -> expire
    sensorCache,  \* rsm.sensorCache: room -> (thing -> SensorStatus)
    cacheLock,    \* rsm.cacheLock: [writer, readers]
    pc,           \* cacheUpdater's position
    errs,         \* updateAllSensorStatuses: errs, in order of receipt
    cleanErr,     \* the error of the last cleanUpExpiredSessions: "", "nil", "err"
    errClosed,    \* errCh is closed
    wg,           \* the WaitGroup's counter
    epc,          \* the enumerating goroutine's position
    rowsLeft,     \* rows the enumeration has not scanned yet
    cpc,          \* the closing goroutine's position
    fpc,          \* each fetch goroutine's position
    fstat,        \* the SensorStatus a fetch goroutine is about to store
    rpc,          \* each reader's position in getSensorStatusFromCache
    rroom,        \* the room a reader asks for
    vote,         \* table vote (committed): set of rows
    nextVoteID,   \* the next value of vote_id the table hands out
    nextSessionID,\* the next session_id the session layer hands out
    txCount,      \* the number of request transactions begun so far
    txpc,         \* each request transaction's position
    txS,          \* RoomStatusTx.s: the session_id, or NoSession for nil
    txVotes,      \* table vote as the transaction sees it
    txSessions,   \* table session as the transaction sees it
    txWrote,      \* the vote_ids the transaction inserted or updated
    txNew,        \* the transaction created its session
    txLast        \* the last Vote on the transaction that returned nil

cacheVars == <<sensorCache, cacheLock>>
loopVars == <<pc, errs, cleanErr, errClosed, wg, epc, rowsLeft, cpc, fpc, fstat>>
readerVars == <<rpc, rroom>>
voteVars == <<vote, nextVoteID, nextSessionID, txCount, txpc, txS, txVotes, txSessions,
              txWrote, txNew, txLast>>
vars == <<now, tickC, ctxDone, thing, session, sensorCache, cacheLock,
            pc, errs, cleanErr, errClosed, wg, epc, rowsLeft, cpc, fpc, fstat,
            rpc, rroom, vote, nextVoteID, nextSessionID, txCount, txpc, txS, txVotes,
          txSessions, txWrote, txNew, txLast>>

\* ---------------------------------------------------------- the cache
Abs(x) == IF x < 0 THEN -x ELSE x

\* Go's integer division truncates toward zero
GoDiv(a, b) == IF a >= 0 THEN a \div b ELSE -((-a) \div b)

\* a variant of After that also holds at the instant itself
AfterOrEqual(t, u) == t >= u

\* time.Time.After
After(t, u) == t > u

\* rows[0] of a telemetry answer: the fields it carries (has) and their values
Row(has, temp, hum, lu) ==
    [err |-> FALSE, has |-> has, temperature |-> temp, humidity |-> hum,
     lastUpdated |-> lu]

AllFields == {"temperature", "humidity", "lastUpdated"}

\* the readings the telemetry service may answer with at time t:
\* temperature, humidity, and lastUpdated in milliseconds
Samples(t) ==
    { Row(AllFields, 22, 40, (t - 10) * MsPerSecond),
      Row(AllFields, 25, 50, (t - 60) * MsPerSecond + 999),
      Row(AllFields, 22, 40, (t - 61) * MsPerSecond),
      Row(AllFields, 25, 50, (t - 120) * MsPerSecond),
      Row(AllFields, 22, 40, (t + 61) * MsPerSecond) }

\* an answer with a field absent or of the wrong type
Malformed(t) ==
    { Row(AllFields \ {f}, 22, 40, (t - 10) * MsPerSecond) : f \in AllFields }

NetError == [err |-> TRUE, has |-> {}, temperature |-> 0, humidity |-> 0,
             lastUpdated |-> 0]

\* ThingWorxClient.Properties: a network error, or rows[0] of the answer
Properties(t) == {NetError} \cup Samples(t) \cup Malformed(t)

NoStat == [none |-> TRUE]

\* a variant of ParseStatus that compares the signed difference, so that a
\* lastUpdated ahead of the clock counts as connected
ParseStatusSigned(prop, t) ==
    IF prop.err \/ prop.has # AllFields THEN [err |-> TRUE, stat |-> NoStat]
    ELSE LET lu == GoDiv(prop.lastUpdated, MsPerSecond)
         IN [err |-> FALSE,
             stat |-> [Temperature |-> prop.temperature,
                       Humidity |-> prop.humidity,
                       IsConnected |-> t - lu <= ConnectedWithin,
                       lastUpdated |-> lu,
                       expire |-> t + CACHE_EXPIRE]]

\* updateSensorStatus, from the answer to the decision: the error returned,
\* and the SensorStatus built
ParseStatus(prop, t) ==
    IF prop.err THEN [err |-> TRUE, stat |-> NoStat]
    ELSE IF "temperature" \notin prop.has THEN [err |-> TRUE, stat |-> NoStat]
    ELSE IF "humidity" \notin prop.has THEN [err |-> TRUE, stat |-> NoStat]
    ELSE IF "lastUpdated" \notin prop.has THEN [err |-> TRUE, stat |-> NoStat]
    ELSE LET lu == GoDiv(prop.lastUpdated, MsPerSecond)
         IN [err |-> FALSE,
             stat |-> [Temperature |-> prop.temperature,
                       Humidity |-> prop.humidity,
                       IsConnected |-> Abs(t - lu) <= ConnectedWithin,
                       lastUpdated |-> lu,
                       expire |-> t + CACHE_EXPIRE]]

\* a variant of CachePut that replaces the room's whole map by the one entry
CachePutRoom(cache, id, name, stat) ==
    [r \in DOMAIN cache \cup {id} |-> IF r = id THEN (name :> stat) ELSE cache[r]]

\* updateSensorStatus: rsm.sensorCache[id][thingName] = stat
CachePut(cache, id, name, stat) ==
    LET c1 == IF id \in DOMAIN cache THEN cache ELSE cache @@ (id :> EmptyMap)
    IN [r \in DOMAIN c1 |->
          IF r = id
          THEN [n \in DOMAIN c1[r] \cup {name} |->
                  IF n = name THEN stat ELSE c1[r][n]]
          ELSE c1[r]]

\* a variant of Unexpired that appends every entry, expired or not
RECURSIVE UnexpiredAll(_, _, _)
UnexpiredAll(cache, keys, t) ==
    IF keys = {} THEN EmptyBag
    ELSE LET i == CHOOSE k \in keys : TRUE
         IN UnexpiredAll(cache, keys \ {i}, t) (+) SetToBag({cache[i]})

\* getSensorStatusFromCache: the loop over the room's map, appending the
\* entries that have not expired (the array, as a bag: Go's map order is free)
RECURSIVE Unexpired(_, _, _)
Unexpired(cache, keys, t) ==
    IF keys = {} THEN EmptyBag
    ELSE LET i == CHOOSE k \in keys : TRUE
             rest == Unexpired(cache, keys \ {i}, t)
         IN IF After(cache[i].expire, t)
            THEN rest (+) SetToBag({cache[i]})
            ELSE rest

\* a variant of getSensorStatusFromCache that reports found whenever the room
\* has an entry, expired or not
getSensorStatusFoundAny(id, t) ==
    IF id \in DOMAIN sensorCache
    THEN [array |-> Unexpired(sensorCache[id], DOMAIN sensorCache[id], t),
          ok |-> DOMAIN sensorCache[id] # {}]
    ELSE [array |-> EmptyBag, ok |-> FALSE]

getSensorStatusFromCache(id, t) ==
    IF id \in DOMAIN sensorCache
    THEN LET array == Unexpired(sensorCache[id], DOMAIN sensorCache[id], t)
         IN [array |-> array, ok |-> BagCardinality(array) > 0]
    ELSE [array |-> EmptyBag, ok |-> FALSE]


\* --------------------------------------------------- the clock, the context
\* INTERVAL seconds pass; the ticker puts a tick in tick.C unless one waits
Tick ==
    /\ now + INTERVAL <= StartTime + MaxTicks * INTERVAL
    /\ now' = now + INTERVAL
    /\ tickC' = TRUE
    /\ UNCHANGED <<ctxDone, thing, session, cacheVars, loopVars, readerVars>>
    /\ UNCHANGED voteVars

\* the owner of ctx cancels it
Cancel ==
    /\ ~ctxDone
    /\ ctxDone' = TRUE
    /\ UNCHANGED <<now, tickC, thing, session, cacheVars, loopVars, readerVars>>
    /\ UNCHANGED voteVars

\* ------------------------------------------- updateAllSensorStatuses
EnumError == [src |-> "enum", id |-> "", name |-> ""]
FetchError(row) == [src |-> "fetch", id |-> row[1], name |-> row[2]]

\* cacheUpdater calls updateAllSensorStatuses: errCh is made, wg.Add(1), the
\* enumerating and the closing goroutine start, and the caller ranges over errCh
StartUpdateAll ==
    /\ pc = "update"
    /\ pc' = "collect"
    /\ errs' = <<>>
    /\ cleanErr' = ""
    /\ errClosed' = FALSE
    /\ wg' = 1
    /\ epc' = "begin"
    /\ cpc' = "wait"
    /\ rowsLeft' = {}
    /\ fpc' = [row \in AllRows |-> "idle"]
    /\ fstat' = [row \in AllRows |-> NoStat]
    /\ UNCHANGED <<now, tickC, ctxDone, thing, session, cacheVars, readerVars>>
    /\ UNCHANGED voteVars

\* rsm.db.Begin() in the enumerating goroutine
EnumBegin ==
    /\ epc = "begin"
    /\ \E ok \in BOOLEAN : epc' = IF ok THEN "query" ELSE "send"
    /\ UNCHANGED <<now, tickC, ctxDone, thing, session, cacheVars, readerVars,
                   pc, errs, errClosed, wg, rowsLeft, cpc, fpc, fstat, cleanErr>>
    /\ UNCHANGED voteVars

\* SELECT room_id, thing_name FROM thing
EnumQuery ==
    /\ epc = "query"
    /\ \E ok \in BOOLEAN :
         /\ epc' = IF ok THEN "rows" ELSE "send"
         /\ rowsLeft' = IF ok THEN thing ELSE {}
    /\ UNCHANGED <<now, tickC, ctxDone, thing, session, cacheVars, readerVars,
                   pc, errs, errClosed, wg, cpc, fpc, fstat, cleanErr>>
    /\ UNCHANGED voteVars

\* a variant of EnumNext in which the fetch goroutine takes cacheLock before
\* it enters ThingWorxClient.Properties
EnumNextLocked ==
    /\ epc = "rows"
    /\ cacheLock.writers = {}
    /\ cacheLock.readers = {}
    /\ \E row \in rowsLeft :
         /\ rowsLeft' = rowsLeft \ {row}
         /\ wg' = wg + 1
         /\ fpc' = [fpc EXCEPT ![row] = "fetch"]
         /\ cacheLock' = [cacheLock EXCEPT !.writers = {row}]
    /\ UNCHANGED <<now, tickC, ctxDone, thing, session, sensorCache, readerVars,
                   pc, errs, errClosed, epc, cpc, fstat, cleanErr>>
    /\ UNCHANGED voteVars

\* rows.Next(): wg.Add(1) and a fetch goroutine for the row, which enters
\* ThingWorxClient.Properties
EnumNext ==
    /\ epc = "rows"
    /\ \E row \in rowsLeft :
         /\ rowsLeft' = rowsLeft \ {row}
         /\ wg' = wg + 1
         /\ fpc' = [fpc EXCEPT ![row] = "fetch"]
    /\ UNCHANGED <<now, tickC, ctxDone, thing, session, cacheVars, readerVars,
                   pc, errs, errClosed, epc, cpc, fstat, cleanErr>>
    /\ UNCHANGED voteVars

\* a variant of EnumReturn in which the enumerating goroutine ends without
\* wg.Done()
EnumReturnNoDone ==
    /\ epc = "rows"
    /\ rowsLeft = {}
    /\ epc' = "exit"
    /\ UNCHANGED <<now, tickC, ctxDone, thing, session, cacheVars, readerVars,
                   pc, errs, errClosed, wg, rowsLeft, cpc, fpc, fstat, cleanErr>>
    /\ UNCHANGED voteVars

\* the rows are exhausted: tx.Rollback() and wg.Done(), deferred
EnumReturn ==
    /\ epc = "rows"
    /\ rowsLeft = {}
    /\ epc' = "exit"
    /\ wg' = wg - 1
    /\ UNCHANGED <<now, tickC, ctxDone, thing, session, cacheVars, readerVars,
                   pc, errs, errClosed, rowsLeft, cpc, fpc, fstat, cleanErr>>
    /\ UNCHANGED voteVars

\* errCh <- err in the enumerating goroutine, received by the caller's range
\* (errCh is unbuffered: the send and the receive are one step); then wg.Done()
EnumSendErr ==
    /\ epc = "send"
    /\ pc = "collect"
    /\ ~errClosed
    /\ errs' = Append(errs, EnumError)
    /\ epc' = "exit"
    /\ wg' = wg - 1
    /\ UNCHANGED <<now, tickC, ctxDone, thing, session, cacheVars, readerVars,
                   pc, errClosed, rowsLeft, cpc, fpc, fstat, cleanErr>>
    /\ UNCHANGED voteVars

\* updateSensorStatus: Properties returns and the status is built; an error
\* goes to errCh, a reading that is not connected is dropped (return nil), a
\* connected one waits for cacheLock.  A goroutine ends "dropped", "stored"
\* or, its error sent, "failed"
FetchReturn(row) ==
    /\ fpc[row] = "fetch"
    /\ \E prop \in Properties(now) :
         LET res == ParseStatus(prop, now)
         IN IF res.err
            THEN /\ fpc' = [fpc EXCEPT ![row] = "send"]
                 /\ UNCHANGED <<fstat, wg>>
            ELSE IF ~res.stat.IsConnected
            THEN /\ fpc' = [fpc EXCEPT ![row] = "dropped"]
                 /\ wg' = wg - 1
                 /\ UNCHANGED fstat
            ELSE /\ fpc' = [fpc EXCEPT ![row] = "lock"]
                 /\ fstat' = [fstat EXCEPT ![row] = res.stat]
                 /\ UNCHANGED wg
    /\ UNCHANGED <<now, tickC, ctxDone, thing, session, cacheVars, readerVars,
                   pc, errs, errClosed, epc, rowsLeft, cpc, cleanErr>>
    /\ UNCHANGED voteVars

\* a variant of FetchLock that does not wait for the readers to leave
FetchLockNoWait(row) ==
    /\ fpc[row] = "lock"
    /\ cacheLock.writers = {}
    /\ cacheLock' = [cacheLock EXCEPT !.writers = {row}]
    /\ fpc' = [fpc EXCEPT ![row] = "locked"]
    /\ UNCHANGED <<now, tickC, ctxDone, thing, session, sensorCache, readerVars,
                   pc, errs, errClosed, wg, epc, rowsLeft, cpc, fstat, cleanErr>>
    /\ UNCHANGED voteVars

\* rsm.cacheLock.Lock()
FetchLock(row) ==
    /\ fpc[row] = "lock"
    /\ cacheLock.writers = {}
    /\ cacheLock.readers = {}
    /\ cacheLock' = [cacheLock EXCEPT !.writers = {row}]
    /\ fpc' = [fpc EXCEPT ![row] = "locked"]
    /\ UNCHANGED <<now, tickC, ctxDone, thing, session, sensorCache, readerVars,
                   pc, errs, errClosed, wg, epc, rowsLeft, cpc, fstat, cleanErr>>
    /\ UNCHANGED voteVars

\* the write into rsm.sensorCache, then Unlock() and wg.Done(), deferred
FetchStore(row) ==
    /\ fpc[row] = "locked"
    /\ sensorCache' = CachePut(sensorCache, row[1], row[2], fstat[row])
    /\ cacheLock' = [cacheLock EXCEPT !.writers = cacheLock.writers \ {row}]
    /\ fpc' = [fpc EXCEPT ![row] = "stored"]
    /\ fstat' = [fstat EXCEPT ![row] = NoStat]
    /\ wg' = wg - 1
    /\ UNCHANGED <<now, tickC, ctxDone, thing, session, readerVars,
                   pc, errs, errClosed, epc, rowsLeft, cpc, cleanErr>>
    /\ UNCHANGED voteVars

\* a variant of FetchSendErr that also drops the sensor's room from the cache
FetchSendErrEvict(row) ==
    /\ fpc[row] = "send"
    /\ pc = "collect"
    /\ ~errClosed
    /\ errs' = Append(errs, FetchError(row))
    /\ fpc' = [fpc EXCEPT ![row] = "failed"]
    /\ wg' = wg - 1
    /\ sensorCache' = [r \in DOMAIN sensorCache \ {row[1]} |-> sensorCache[r]]
    /\ UNCHANGED <<now, tickC, ctxDone, thing, session, cacheLock, readerVars,
                   pc, errClosed, epc, rowsLeft, cpc, fstat, cleanErr>>
    /\ UNCHANGED voteVars

\* errCh <- err in a fetch goroutine, received by the caller; then wg.Done()
FetchSendErr(row) ==
    /\ fpc[row] = "send"
    /\ pc = "collect"
    /\ ~errClosed
    /\ errs' = Append(errs, FetchError(row))
    /\ fpc' = [fpc EXCEPT ![row] = "failed"]
    /\ wg' = wg - 1
    /\ UNCHANGED <<now, tickC, ctxDone, thing, session, cacheVars, readerVars,
                   pc, errClosed, epc, rowsLeft, cpc, fstat, cleanErr>>
    /\ UNCHANGED voteVars

\* a variant of CloseErrCh that closes errCh without waiting for the group
CloseErrChEarly ==
    /\ cpc = "wait"
    /\ cpc' = "exit"
    /\ errClosed' = TRUE
    /\ UNCHANGED <<now, tickC, ctxDone, thing, session, cacheVars, readerVars,
                   pc, errs, wg, epc, rowsLeft, fpc, fstat, cleanErr>>
    /\ UNCHANGED voteVars

\* the closing goroutine: wg.Wait() returns, close(errCh)
CloseErrCh ==
    /\ cpc = "wait"
    /\ wg = 0
    /\ cpc' = "exit"
    /\ errClosed' = TRUE
    /\ UNCHANGED <<now, tickC, ctxDone, thing, session, cacheVars, readerVars,
                   pc, errs, wg, epc, rowsLeft, fpc, fstat, cleanErr>>
    /\ UNCHANGED voteVars

\* a variant of UpdateAllReturn that returns without waiting for errCh to
\* be closed
UpdateAllReturnEarly ==
    /\ pc = "collect"
    /\ pc' = "cleanup"
    /\ UNCHANGED <<now, tickC, ctxDone, thing, session, cacheVars, readerVars,
                   errs, errClosed, wg, epc, rowsLeft, cpc, fpc, fstat, cleanErr>>
    /\ UNCHANGED voteVars

\* the range over errCh ends; cacheUpdater logs the errors returned
UpdateAllReturn ==
    /\ pc = "collect"
    /\ errClosed
    /\ pc' = "cleanup"
    /\ UNCHANGED <<now, tickC, ctxDone, thing, session, cacheVars, readerVars,
                   errs, errClosed, wg, epc, rowsLeft, cpc, fpc, fstat, cleanErr>>
    /\ UNCHANGED voteVars

\* ------------------------------------------------ cleanUpExpiredSessions
\* a variant of ExpiredBefore that also takes the instant of expiry
ExpiredAtOrBefore(e, t) == e <= t

\* DELETE FROM session WHERE expire < ?
ExpiredBefore(e, t) == e < t

\* the table after the transaction: committed, or rolled back on an error
cleanUpExpiredSessions(table, t, ok) ==
    IF ok
    THEN [s \in {x \in DOMAIN table : ~ExpiredBefore(table[x], t)} |-> table[s]]
    ELSE table

\* cacheUpdater calls cleanUpExpiredSessions and logs its error
CleanUp ==
    /\ pc = "cleanup"
    /\ \E ok \in BOOLEAN :
         /\ session' = cleanUpExpiredSessions(session, now, ok)
         /\ cleanErr' = IF ok THEN "nil" ELSE "err"
    /\ pc' = "select"
    /\ UNCHANGED <<now, tickC, ctxDone, thing, cacheVars, readerVars,
                   errs, errClosed, wg, epc, rowsLeft, cpc, fpc, fstat>>
    /\ UNCHANGED voteVars

\* ------------------------------------------------------- cacheUpdater
\* a variant of SelectDone in which the loop stays at its select when ctx is
\* cancelled
SelectDoneIgnored ==
    /\ pc = "select"
    /\ ctxDone
    /\ UNCHANGED vars

\* select: case <-ctx.Done(): return
SelectDone ==
    /\ pc = "select"
    /\ ctxDone
    /\ pc' = "done"
    /\ UNCHANGED <<now, tickC, ctxDone, thing, session, cacheVars, readerVars,
                   errs, errClosed, wg, epc, rowsLeft, cpc, fpc, fstat, cleanErr>>
    /\ UNCHANGED voteVars

\* select: case <-tick.C: the next cycle
SelectTick ==
    /\ pc = "select"
    /\ tickC
    /\ tickC' = FALSE
    /\ pc' = "update"
    /\ UNCHANGED <<now, ctxDone, thing, session, cacheVars, readerVars,
                   errs, errClosed, wg, epc, rowsLeft, cpc, fpc, fstat, cleanErr>>
    /\ UNCHANGED voteVars

\* ------------------------------------------- getSensorStatusFromCache
\* a request handler calls getSensorStatusFromCache(id): RLock()
GetRLock(q, id) ==
    /\ rpc[q] = "idle"
    /\ cacheLock.writers = {}
    /\ cacheLock' = [cacheLock EXCEPT !.readers = cacheLock.readers \cup {q}]
    /\ rpc' = [rpc EXCEPT ![q] = "rlocked"]
    /\ rroom' = [rroom EXCEPT ![q] = id]
    /\ UNCHANGED <<now, tickC, ctxDone, thing, session, sensorCache, loopVars>>
    /\ UNCHANGED voteVars

\* the lookup, the filter, and RUnlock(), deferred
GetReturn(q) ==
    /\ rpc[q] = "rlocked"
    /\ cacheLock' = [cacheLock EXCEPT !.readers = cacheLock.readers \ {q}]
    /\ rpc' = [rpc EXCEPT ![q] = "idle"]
    /\ UNCHANGED <<now, tickC, ctxDone, thing, session, sensorCache, rroom,
                   loopVars>>
    /\ UNCHANGED voteVars

\* ------------------------------------------------ votes and sessions
\* The statements carry '?' placeholders (MySQL or SQLite): a transaction
\* reads the tables as they were committed when it began, plus its own
\* writes, and its writes reach the tables when it commits.
Choices == {"Hot", "Comfort", "Cold"}
\* the requests in progress at once; a new one takes the first free slot
Txs == {1, 2}

\* RoomStatusTx.s = nil
NoSession == 0
\* Vote: VoteID(0), not voted yet
Unset == 0

\* the most vote rows and sessions a run creates
MaxVotes == 2
MaxSessions == 2
\* the most request transactions a run begins
MaxTxs == 3

\* the session layer's lifetime of a new session
SessionLife == INTERVAL

NoCall == [op |-> ""]

\* the rows of a table with this session_id and room_id
RowsOf(table, sid, id) ==
    {v \in table : v.session_id = sid /\ v.room_id = id}

\* QueryRow(...).Scan: the first row of the result; the queries carry no
\* ORDER BY, so any row of the result may come first
QueryRow(rows) == rows

\* a variant of VoteLookup that never finds the row
VoteLookupNone(table, sid, id) == {Unset}

\* Vote: SELECT vote_id FROM vote WHERE session_id=? AND room_id=?;
\* sql.ErrNoRows leaves VoteID(0)
VoteLookup(table, sid, id) ==
    IF RowsOf(table, sid, id) = {} THEN {Unset}
    ELSE {v.vote_id : v \in QueryRow(RowsOf(table, sid, id))}

\* Vote.UpdateChoice: INSERT when VoteID is 0, else UPDATE of the row's
\* choice and timestamp
UpdateChoice(table, v, sid, newID) ==
    IF v.VoteID = Unset
    THEN table \cup {[vote_id |-> newID, session_id |-> sid,
                      room_id |-> v.RoomID, choice |-> v.choice]}
    ELSE {IF w.vote_id = v.VoteID THEN [w EXCEPT !.choice = v.choice] ELSE w :
            w \in table}

\* GetMyVote: the session's vote for the room, nil when there is none or
\* when the session is nil
GetMyVote(table, sid, id) ==
    IF sid = NoSession \/ RowsOf(table, sid, id) = {}
    THEN {[found |-> FALSE, Vote |-> ""]}
    ELSE {[found |-> TRUE, Vote |-> v.choice] :
            v \in QueryRow(RowsOf(table, sid, id))}

\* a variant of SessionLive that excludes the instant of expiry
SessionLiveStrict(e, t) == e > t

\* GetStatus: WHERE ... session.expire >= ?
SessionLive(e, t) == e >= t

\* GetStatus: SELECT vote.choice, count(vote.vote_id) FROM vote NATURAL JOIN
\* session WHERE vote.room_id=? AND session.expire>=? GROUP BY vote.choice
TallyRows(table, sessions, id, t) ==
    LET joined == {v \in table : /\ v.session_id \in DOMAIN sessions
                                 /\ v.room_id = id
                                 /\ SessionLive(sessions[v.session_id], t)}
    IN {[choice |-> c, count |-> Cardinality({v \in joined : v.choice = c})] :
          c \in {v.choice : v \in joined}}

\* GetStatus: the loop over the rows; a choice with no row keeps 0
CountOf(rows, c) ==
    IF \E r \in rows : r.choice = c
    THEN (CHOOSE r \in rows : r.choice = c).count
    ELSE 0

GetStatus(table, sessions, id, t) ==
    LET cached == getSensorStatusFromCache(id, t)
        rows == TallyRows(table, sessions, id, t)
    IN [RoomID |-> id,
        Sensors |-> IF cached.ok THEN cached.array ELSE EmptyBag,
        Hot |-> CountOf(rows, "Hot"),
        Comfort |-> CountOf(rows, "Comfort"),
        Cold |-> CountOf(rows, "Cold")]

\* GetTx: Begin, GetSession for the request's cookie, and NewSession when
\* there is none and the handler asks for one
GetTx(t, cookie, new) ==
    /\ txpc[t] = "none"
    /\ \A u \in Txs : u < t => txpc[u] # "none"
    /\ txCount < MaxTxs
    /\ txCount' = txCount + 1
    /\ LET s == IF cookie \in DOMAIN session THEN cookie ELSE NoSession
           make == s = NoSession /\ new
       IN /\ make => nextSessionID <= MaxSessions
          /\ txS' = [txS EXCEPT ![t] = IF make THEN nextSessionID ELSE s]
          /\ txNew' = [txNew EXCEPT ![t] = make]
          /\ nextSessionID' = IF make THEN nextSessionID + 1 ELSE nextSessionID
          /\ txSessions' = [txSessions EXCEPT ![t] =
                IF make THEN session @@ (nextSessionID :> now + SessionLife)
                ELSE session]
    /\ txVotes' = [txVotes EXCEPT ![t] = vote]
    /\ txpc' = [txpc EXCEPT ![t] = "open"]
    /\ UNCHANGED <<vote, nextVoteID, txWrote, txLast>>
    /\ UNCHANGED <<now, tickC, ctxDone, thing, session, cacheVars, loopVars,
                   readerVars>>

\* a variant of SessionIsNil that never sees a nil session
SessionNilNever(s) == FALSE

\* Vote: if rst.s == nil
SessionIsNil(s) == s = NoSession

\* Vote on a transaction without a session: panic, before any statement
VotePanic(t) ==
    /\ txpc[t] = "open"
    /\ SessionIsNil(txS[t])
    /\ txpc' = [txpc EXCEPT ![t] = "panicked"]
    /\ txLast' = [txLast EXCEPT ![t] = NoCall]
    /\ UNCHANGED <<vote, nextVoteID, nextSessionID, txCount, txS, txVotes, txSessions,
                   txWrote, txNew>>
    /\ UNCHANGED <<now, tickC, ctxDone, thing, session, cacheVars, loopVars,
                   readerVars>>

\* Vote(id, choice): the lookup of the session's vote_id for the room, then
\* vote.UpdateChoice(rst.tx, choice); a statement that fails returns its
\* error and writes nothing.  No other transaction's write is visible
\* between the two statements, so they are one step.  GetMyVote and
\* GetStatus only read: they are the operators above, applied to the
\* transaction's tables
Vote(t, id, choice) ==
    /\ txpc[t] = "open"
    /\ ~SessionIsNil(txS[t])
    /\ \E ok \in BOOLEAN, found \in VoteLookup(txVotes[t], txS[t], id) :
         IF ok
         THEN LET v == [RoomID |-> id, VoteID |-> found, choice |-> choice]
                  wid == IF v.VoteID = Unset THEN nextVoteID ELSE v.VoteID
              IN /\ v.VoteID = Unset => nextVoteID <= MaxVotes
                 /\ txVotes' = [txVotes EXCEPT ![t] =
                       UpdateChoice(txVotes[t], v, txS[t], nextVoteID)]
                 /\ txWrote' = [txWrote EXCEPT ![t] = txWrote[t] \cup {wid}]
                 /\ nextVoteID' = IF v.VoteID = Unset THEN nextVoteID + 1
                                  ELSE nextVoteID
                 /\ txLast' = [txLast EXCEPT ![t] =
                       [op |-> "Vote", id |-> id, choice |-> choice]]
         ELSE UNCHANGED <<txVotes, txWrote, nextVoteID, txLast>>
    /\ UNCHANGED <<vote, nextSessionID, txCount, txpc, txS, txSessions, txNew>>
    /\ UNCHANGED <<now, tickC, ctxDone, thing, session, cacheVars, loopVars,
                   readerVars>>

\* the transaction's state once it has ended
TxEnd(t) ==
    /\ txpc' = [txpc EXCEPT ![t] = "none"]
    /\ txS' = [txS EXCEPT ![t] = NoSession]
    /\ txVotes' = [txVotes EXCEPT ![t] = {}]
    /\ txSessions' = [txSessions EXCEPT ![t] = EmptyMap]
    /\ txWrote' = [txWrote EXCEPT ![t] = {}]
    /\ txNew' = [txNew EXCEPT ![t] = FALSE]
    /\ txLast' = [txLast EXCEPT ![t] = NoCall]

\* RoomStatusTx.Commit: the rows the transaction wrote, and the session it
\* created, reach the tables
Commit(t) ==
    /\ txpc[t] = "open"
    /\ vote' = {v \in vote : v.vote_id \notin txWrote[t]}
                 \cup {v \in txVotes[t] : v.vote_id \in txWrote[t]}
    /\ session' = IF txNew[t]
                  THEN session @@ (txS[t] :> txSessions[t][txS[t]])
                  ELSE session
    /\ TxEnd(t)
    /\ UNCHANGED <<nextVoteID, nextSessionID, txCount>>
    /\ UNCHANGED <<now, tickC, ctxDone, thing, cacheVars, loopVars, readerVars>>

\* RoomStatusTx.Rollback, a Commit that fails, or the end of a request that
\* panicked: nothing the transaction wrote reaches the tables
Rollback(t) ==
    /\ txpc[t] \in {"open", "panicked"}
    /\ TxEnd(t)
    /\ UNCHANGED <<vote, nextVoteID, nextSessionID, txCount>>
    /\ UNCHANGED <<now, tickC, ctxDone, thing, session, cacheVars, loopVars,
                   readerVars>>

\* a cycle of cacheUpdater reaches cleanUpExpiredSessions while requests run
CleanUpCycle ==
    /\ \E ok \in BOOLEAN :
         session' = cleanUpExpiredSessions(session, now, ok)
    /\ UNCHANGED <<now, tickC, ctxDone, thing, cacheVars, loopVars, readerVars>>
    /\ UNCHANGED voteVars

\* ------------------------------------------------------ specification
\* no request transaction is open; table vote is empty
InitTx ==
    /\ vote = {}
    /\ nextVoteID = 1
    /\ txCount = 0
    /\ txpc = [t \in Txs |-> "none"]
    /\ txS = [t \in Txs |-> NoSession]
    /\ txVotes = [t \in Txs |-> {}]
    /\ txSessions = [t \in Txs |-> EmptyMap]
    /\ txWrote = [t \in Txs |-> {}]
    /\ txNew = [t \in Txs |-> FALSE]
    /\ txLast = [t \in Txs |-> NoCall]

\* NewRoomStatusManager: an empty cache, and cacheUpdater started
Init ==
    /\ now = StartTime
    /\ tickC = FALSE
    /\ ctxDone = FALSE
    /\ thing \in ThingTables
    /\ session = (1 :> StartTime) @@ (2 :> StartTime + INTERVAL)
    /\ sensorCache = EmptyMap
    /\ cacheLock = [writers |-> {}, readers |-> {}]
    /\ pc = "update"
    /\ errs = <<>>
    /\ cleanErr = ""
    /\ errClosed = FALSE
    /\ wg = 0
    /\ epc = "idle"
    /\ rowsLeft = {}
    /\ cpc = "idle"
    /\ fpc = [row \in AllRows |-> "idle"]
    /\ fstat = [row \in AllRows |-> NoStat]
    /\ rpc = [q \in Readers |-> "idle"]
    /\ rroom = [q \in Readers |-> "R1"]
    /\ nextSessionID = 3
    /\ InitTx

Next ==
    \/ Tick
    \/ Cancel
    \/ StartUpdateAll
    \/ EnumBegin
    \/ EnumQuery
    \/ EnumNext
    \/ EnumReturn
    \/ EnumSendErr
    \/ \E row \in AllRows : FetchReturn(row)
    \/ \E row \in AllRows : FetchLock(row)
    \/ \E row \in AllRows : FetchStore(row)
    \/ \E row \in AllRows : FetchSendErr(row)
    \/ CloseErrCh
    \/ UpdateAllReturn
    \/ CleanUp
    \/ SelectDone
    \/ SelectTick
    \/ \E q \in Readers, id \in Rooms : GetRLock(q, id)
    \/ \E q \in Readers : GetReturn(q)

Spec == Init /\ [][Next]_vars

\* the request handlers' transactions, over a database with one session and
\* no sensors, while the clock runs and cacheUpdater cleans up
InitVote ==
    /\ now = StartTime
    /\ tickC = FALSE
    /\ ctxDone = FALSE
    /\ thing = {}
    /\ session = (1 :> StartTime + SessionLife)
    /\ nextSessionID = 2
    /\ sensorCache = EmptyMap
    /\ cacheLock = [writers |-> {}, readers |-> {}]
    /\ pc = "select"
    /\ errs = <<>>
    /\ cleanErr = ""
    /\ errClosed = TRUE
    /\ wg = 0
    /\ epc = "exit"
    /\ rowsLeft = {}
    /\ cpc = "exit"
    /\ fpc = [row \in AllRows |-> "idle"]
    /\ fstat = [row \in AllRows |-> NoStat]
    /\ rpc = [q \in Readers |-> "idle"]
    /\ rroom = [q \in Readers |-> "R1"]
    /\ InitTx

NextVote ==
    \/ Tick
    \/ CleanUpCycle
    \/ \E t \in Txs, cookie \in 0..MaxSessions, new \in BOOLEAN :
         GetTx(t, cookie, new)
    \/ \E t \in Txs : VotePanic(t)
    \/ \E t \in Txs, id \in Rooms, choice \in Choices : Vote(t, id, choice)
    \/ \E t \in Txs : Commit(t)
    \/ \E t \in Txs : Rollback(t)

SpecVote == InitVote /\ [][NextVote]_vars

\* cacheUpdater under fair scheduling, started one interval before the
\* clock's horizon.  Every goroutine that can take a step takes it, and
\* every database call and telemetry round trip returns (weak fairness); a
\* goroutine waiting in Lock() gets the lock although readers come and go,
\* and a select that is ready again and again takes each ready case (strong
\* fairness).  Nothing forces the clock, the cancellation or a reader's call.
InitFair ==
    /\ now = StartTime + (MaxTicks - 1) * INTERVAL
    /\ tickC = FALSE
    /\ ctxDone = FALSE
    /\ thing \in ThingTables
    /\ session = (1 :> StartTime) @@ (2 :> StartTime + INTERVAL)
    /\ sensorCache = EmptyMap
    /\ cacheLock = [writers |-> {}, readers |-> {}]
    /\ pc = "update"
    /\ errs = <<>>
    /\ cleanErr = ""
    /\ errClosed = FALSE
    /\ wg = 0
    /\ epc = "idle"
    /\ rowsLeft = {}
    /\ cpc = "idle"
    /\ fpc = [row \in AllRows |-> "idle"]
    /\ fstat = [row \in AllRows |-> NoStat]
    /\ rpc = [q \in Readers |-> "idle"]
    /\ rroom = [q \in Readers |-> "R1"]
    /\ nextSessionID = 3
    /\ InitTx

Fairness ==
    /\ WF_vars(StartUpdateAll)
    /\ WF_vars(EnumBegin)
    /\ WF_vars(EnumQuery)
    /\ WF_vars(EnumNext)
    /\ WF_vars(EnumReturn)
    /\ WF_vars(EnumSendErr)
    /\ \A row \in AllRows : WF_vars(FetchReturn(row))
    /\ \A row \in AllRows : SF_vars(FetchLock(row))
    /\ \A row \in AllRows : WF_vars(FetchStore(row))
    /\ \A row \in AllRows : WF_vars(FetchSendErr(row))
    /\ WF_vars(CloseErrCh)
    /\ WF_vars(UpdateAllReturn)
    /\ WF_vars(CleanUp)
    /\ SF_vars(SelectDone)
    /\ SF_vars(SelectTick)
    /\ \A q \in Readers : WF_vars(GetReturn(q))

SpecFair == InitFair /\ [][Next]_vars /\ Fairness

\* one refresh cycle over a room with two sensors, with two request handlers
\* reading the cache at once
ManyReaders == {"q1", "q2"}

InitReaders ==
    /\ now = StartTime
    /\ tickC = FALSE
    /\ ctxDone = FALSE
    /\ thing = {<<"R1", "S1">>, <<"R1", "S2">>}
    /\ session = (1 :> StartTime) @@ (2 :> StartTime + INTERVAL)
    /\ sensorCache = EmptyMap
    /\ cacheLock = [writers |-> {}, readers |-> {}]
    /\ pc = "update"
    /\ errs = <<>>
    /\ cleanErr = ""
    /\ errClosed = FALSE
    /\ wg = 0
    /\ epc = "idle"
    /\ rowsLeft = {}
    /\ cpc = "idle"
    /\ fpc = [row \in AllRows |-> "idle"]
    /\ fstat = [row \in AllRows |-> NoStat]
    /\ rpc = [q \in ManyReaders |-> "idle"]
    /\ rroom = [q \in ManyReaders |-> "R1"]
    /\ nextSessionID = 3
    /\ InitTx

NextReaders ==
    \/ StartUpdateAll
    \/ EnumBegin
    \/ EnumQuery
    \/ EnumNext
    \/ EnumReturn
    \/ EnumSendErr
    \/ \E row \in AllRows : FetchReturn(row)
    \/ \E row \in AllRows : FetchLock(row)
    \/ \E row \in AllRows : FetchStore(row)
    \/ \E row \in AllRows : FetchSendErr(row)
    \/ CloseErrCh
    \/ UpdateAllReturn
    \/ CleanUp
    \/ \E q \in ManyReaders, id \in Rooms : GetRLock(q, id)
    \/ \E q \in ManyReaders : GetReturn(q)

SpecReaders == InitReaders /\ [][NextReaders]_vars

\* the requests arriving one after the other: a transaction begins
\* only when no other is open
SerialGetTx(t, cookie, new) ==
    /\ \A u \in Txs : txpc[u] = "none"
    /\ GetTx(t, cookie, new)

NextVoteSerial ==
    \/ Tick
    \/ CleanUpCycle
    \/ \E t \in Txs, cookie \in 0..MaxSessions, new \in BOOLEAN :
         SerialGetTx(t, cookie, new)
    \/ \E t \in Txs : VotePanic(t)
    \/ \E t \in Txs, id \in Rooms, choice \in Choices : Vote(t, id, choice)
    \/ \E t \in Txs : Commit(t)
    \/ \E t \in Txs : Rollback(t)

SpecVoteSerial == InitVote /\ [][NextVoteSerial]_vars

\* ================================================= the cache's properties
\* the entries stored for room id
Stored(id) ==
    IF id \in DOMAIN sensorCache
    THEN {sensorCache[id][n] : n \in DOMAIN sensorCache[id]}
    ELSE {}

\* the sensors of room id whose stored entry has expiresAt after t
LiveNames(id, t) ==
    IF id \in DOMAIN sensorCache
    THEN {n \in DOMAIN sensorCache[id] : sensorCache[id][n].expire > t}
    ELSE {}

\* a reading that was within ConnectedWithin seconds of its fetch
FreshAtFetch(s) ==
    /\ s.IsConnected
    /\ Abs((s.expire - CACHE_EXPIRE) - s.lastUpdated) <= ConnectedWithin

\* row is the only sensor of its room
SoleSensor(row) == \A r \in thing : r[1] = row[1] => r = row

\* C1: a get at time now never returns a reading whose expiresAt is not
\* strictly after now, and no step removes an entry from the cache: an
\* expired entry stays stored until a later fetch overwrites it.
LazyExpiry_C1 ==
    /\ [](\A id \in Rooms :
            \A s \in BagToSet(getSensorStatusFromCache(id, now).array) :
               s.expire > now)
    /\ [][\A id \in DOMAIN sensorCache :
              /\ id \in DOMAIN sensorCache'
              /\ DOMAIN sensorCache[id] \subseteq DOMAIN sensorCache'[id]]_vars

\* C1: a reader is inside its call for a room whose only entries are expired
\* and still stored
Witness_C1 ==
    \E q \in Readers :
       /\ rpc[q] = "rlocked"
       /\ \E s \in Stored(rroom[q]) : s.expire <= now
       /\ ~getSensorStatusFromCache(rroom[q], now).ok

\* C2: a reading whose lastUpdated is more than 60 s from its fetch time is
\* never stored and raises no error; every stored, pending and returned
\* reading is connected and was within 60 s of its fetch.
Discarded_C2 ==
    /\ \A row \in AllRows :
          fpc[row] \in {"lock", "locked"} => FreshAtFetch(fstat[row])
    /\ \A id \in Rooms : \A s \in Stored(id) : FreshAtFetch(s)
    /\ \A id \in Rooms :
          \A s \in BagToSet(getSensorStatusFromCache(id, now).array) :
             FreshAtFetch(s)
    /\ \A prop \in Samples(now) :
          Abs(now - GoDiv(prop.lastUpdated, MsPerSecond)) > ConnectedWithin
             => /\ ~ParseStatus(prop, now).err
                /\ ~ParseStatus(prop, now).stat.IsConnected
    /\ \A i \in 1..Len(errs) :
          errs[i].src = "fetch" => fpc[<<errs[i].id, errs[i].name>>] = "failed"

\* C2: a fetch has discarded its reading while a reader is inside a call that
\* returns readings of the same room
Witness_C2 ==
    \E row \in thing, q \in Readers :
       /\ fpc[row] = "dropped"
       /\ rpc[q] = "rlocked"
       /\ rroom[q] = row[1]
       /\ getSensorStatusFromCache(row[1], now).ok

\* C3, as stated: once the only sensor of a room has had its stale reading
\* discarded, a get of the room reports not-found, whatever was cached before.
StaleNotFound_C3_AsStated ==
    \A row \in thing :
       (SoleSensor(row) /\ fpc[row] = "dropped")
          => ~getSensorStatusFromCache(row[1], now).ok

\* C3: once the only sensor of a room has had its stale reading discarded, a
\* get of the room reports not-found exactly when no reading stored by an
\* earlier fetch has expiresAt after now; what it returns otherwise is that
\* earlier, connected reading, and never the discarded one.
StaleNotFound_C3 ==
    \A row \in thing :
       (SoleSensor(row) /\ fpc[row] = "dropped")
          => LET res == getSensorStatusFromCache(row[1], now)
             IN /\ res.ok <=> (\E s \in Stored(row[1]) : s.expire > now)
                /\ (\A s \in Stored(row[1]) : s.expire <= now) => ~res.ok
                /\ \A s \in BagToSet(res.array) : FreshAtFetch(s)

\* C3: the only sensor of a room has had its reading discarded, and a reader
\* is inside a call for that room that reports not-found
Witness_C3 ==
    \E row \in thing, q \in Readers :
       /\ SoleSensor(row)
       /\ fpc[row] = "dropped"
       /\ rpc[q] = "rlocked"
       /\ rroom[q] = row[1]
       /\ ~getSensorStatusFromCache(row[1], now).ok

\* C4: a get at time now returns exactly the stored readings of that room
\* with expiresAt after now, each once, and reports found iff there is one.
GetContract_C4 ==
    \A id \in Rooms :
       LET res == getSensorStatusFromCache(id, now)
           live == LiveNames(id, now)
       IN /\ BagCardinality(res.array) = Cardinality(live)
          /\ \A n \in live : BagIn(sensorCache[id][n], res.array)
          /\ \A s \in BagToSet(res.array) :
                CopiesIn(s, res.array)
                   = Cardinality({n \in live : sensorCache[id][n] = s})
          /\ res.ok <=> live # {}

\* C4: a reader is inside a call for a room that holds one expired and one
\* unexpired entry
Witness_C4 ==
    \E q \in Readers :
       /\ rpc[q] = "rlocked"
       /\ \E s \in Stored(rroom[q]) : s.expire <= now
       /\ \E s \in Stored(rroom[q]) : s.expire > now

\* C5: a fetch at time now that reads a connected reading builds it from the
\* answer with isConnected true and expiresAt = now + CACHE_EXPIRE; storing it
\* puts it under (room, sensor), replacing what was there, and leaves every
\* other entry of the cache as it was.
StoreStep_C5 ==
    [][\A row \in AllRows :
          /\ (fpc[row] = "fetch" /\ fpc'[row] = "lock")
                => \E prop \in Samples(now) :
                      /\ Abs(now - GoDiv(prop.lastUpdated, MsPerSecond))
                            <= ConnectedWithin
                      /\ fstat'[row] =
                            [Temperature |-> prop.temperature,
                             Humidity |-> prop.humidity,
                             IsConnected |-> TRUE,
                             lastUpdated |-> GoDiv(prop.lastUpdated, MsPerSecond),
                             expire |-> now + CACHE_EXPIRE]
          /\ (fpc[row] = "locked" /\ fpc'[row] = "stored")
                => /\ fstat[row].IsConnected
                   /\ row[1] \in DOMAIN sensorCache'
                   /\ row[2] \in DOMAIN sensorCache'[row[1]]
                   /\ sensorCache'[row[1]][row[2]] = fstat[row]
                   /\ DOMAIN sensorCache' = DOMAIN sensorCache \cup {row[1]}
                   /\ \A r \in DOMAIN sensorCache :
                         /\ DOMAIN sensorCache'[r] \ {row[2]}
                               = DOMAIN sensorCache[r] \ {row[2]}
                         /\ \A n \in DOMAIN sensorCache[r] :
                               <<r, n>> # row
                                  => /\ n \in DOMAIN sensorCache'[r]
                                     /\ sensorCache'[r][n] = sensorCache[r][n]
      ]_vars

\* C5: in a cycle after the first, a fetch has stored its reading next to
\* another sensor's entry of the same room
Witness_C5 ==
    \E row \in thing :
       /\ fpc[row] = "stored"
       /\ sensorCache[row[1]][row[2]].expire > StartTime + CACHE_EXPIRE
       /\ DOMAIN sensorCache[row[1]] # {row[2]}

\* ================================================ the votes' properties
\* the number of rows of a table for this room and choice
VotesFor(table, id, c) ==
    Cardinality({v \in table : v.room_id = id /\ v.choice = c})

\* C6: when requests come one after the other, recording a vote twice for
\* the same (session, room) leaves exactly one row for the pair, carrying the
\* latest choice: the first call inserts, the second updates the row it
\* finds; with no other vote for the room and the session live, a last
\* choice of Cold is tallied as hot 0, comfort 0, cold 1.
Upsert_C6 ==
    /\ [](/\ \A s \in 1..MaxSessions, id \in Rooms :
                Cardinality(RowsOf(vote, s, id)) <= 1
          /\ \A t \in Txs :
                txLast[t].op = "Vote"
                   => LET view == txVotes[t]
                          rows == RowsOf(view, txS[t], txLast[t].id)
                          r == GetStatus(view, txSessions[t], txLast[t].id, now)
                      IN /\ Cardinality(rows) = 1
                         /\ \A v \in rows : v.choice = txLast[t].choice
                         /\ \A v \in rows, w \in RowsOf(vote, txS[t], txLast[t].id) :
                               v.vote_id = w.vote_id
                         /\ (/\ txLast[t].choice = "Cold"
                             /\ {v \in view : v.room_id = txLast[t].id} = rows
                             /\ txSessions[t][txS[t]] >= now)
                               => <<r.Hot, r.Comfort, r.Cold>> = <<0, 0, 1>>)
    /\ [][\A t \in Txs :
              (txpc[t] = "open" /\ txpc'[t] = "none")
                 => vote' \in {vote, txVotes[t]}]_vars

\* C6: an earlier request recorded Hot for the pair, and the present one has
\* recorded Cold on the same row, the only vote for the room
Witness_C6 ==
    \E t \in Txs :
       /\ txLast[t].op = "Vote"
       /\ txLast[t].choice = "Cold"
       /\ \E w \in RowsOf(vote, txS[t], txLast[t].id) : w.choice = "Hot"
       /\ {v \in txVotes[t] : v.room_id = txLast[t].id}
             = RowsOf(txVotes[t], txS[t], txLast[t].id)
       /\ txSessions[t][txS[t]] >= now
       /\ GetStatus(txVotes[t], txSessions[t], txLast[t].id, now).Cold = 1

\* C7: under any interleaving of requests, table vote holds at most one row
\* for a (session, room) pair.
OneVotePerPair_C7 ==
    \A s \in 1..MaxSessions, id \in Rooms :
       Cardinality(RowsOf(vote, s, id)) <= 1

\* C8: inside one transaction, GetMyVote after a Vote that returned nil
\* reports that choice for that room, and nothing else; it reports no vote
\* when the session has no row for the room, or when there is no session.
ReadYourVote_C8 ==
    \A t \in Txs :
       /\ txLast[t].op = "Vote"
             => GetMyVote(txVotes[t], txS[t], txLast[t].id)
                   = {[found |-> TRUE, Vote |-> txLast[t].choice]}
       /\ txpc[t] \in {"open", "panicked"}
             => \A id \in Rooms :
                   (txS[t] = NoSession \/ RowsOf(txVotes[t], txS[t], id) = {})
                      => GetMyVote(txVotes[t], txS[t], id)
                            = {[found |-> FALSE, Vote |-> ""]}

\* C9: the tally GetStatus reports at time now for a room counts, per choice,
\* exactly the vote rows of that room whose session exists with expire >= now;
\* the votes of expired or deleted sessions are not counted.
Tally_C9 ==
    \A t \in Txs, id \in Rooms :
       txpc[t] = "open"
          => LET r == GetStatus(txVotes[t], txSessions[t], id, now)
                 counted == {v \in txVotes[t] :
                               /\ v.room_id = id
                               /\ v.session_id \in DOMAIN txSessions[t]
                               /\ txSessions[t][v.session_id] >= now}
             IN /\ r.Hot = VotesFor(counted, id, "Hot")
                /\ r.Comfort = VotesFor(counted, id, "Comfort")
                /\ r.Cold = VotesFor(counted, id, "Cold")
                /\ r.RoomID = id
                /\ \A v \in counted :
                      \/ v.session_id \in DOMAIN session
                      \/ (txNew[t] /\ v.session_id = txS[t])

\* C9: a transaction sees, for one room, a vote of a session that expires at
\* this very instant and a vote of a session that has expired or is gone
Witness_C9 ==
    \E t \in Txs, id \in Rooms :
       /\ txpc[t] = "open"
       /\ \E v \in txVotes[t] :
             /\ v.room_id = id
             /\ v.session_id \in DOMAIN txSessions[t]
             /\ txSessions[t][v.session_id] = now
       /\ \E v \in txVotes[t] :
             /\ v.room_id = id
             /\ \/ v.session_id \notin DOMAIN txSessions[t]
                \/ txSessions[t][v.session_id] < now

\* C10: a cleanup at time now that succeeds deletes exactly the sessions with
\* expire < now and keeps every other as it was; one that fails leaves the
\* table unchanged. A session it deletes has expire < now, so no tally taken
\* at that instant would still count its votes.
CleanUp_C10 ==
    [][(pc = "cleanup" /\ pc' = "select")
          => /\ cleanErr' \in {"nil", "err"}
             /\ cleanErr' = "nil"
                   => /\ DOMAIN session'
                            = {s \in DOMAIN session : session[s] >= now}
                      /\ \A s \in DOMAIN session' : session'[s] = session[s]
             /\ cleanErr' = "err" => session' = session
             /\ \A s \in DOMAIN session \ DOMAIN session' :
                   ~SessionLive(session[s], now)]_vars

\* C10: a cleanup has succeeded at the instant one session expires: that
\* session is kept, and the one that expired before is gone
Witness_C10 ==
    /\ pc = "select"
    /\ cleanErr = "nil"
    /\ 1 \notin DOMAIN session
    /\ 2 \in DOMAIN session
    /\ session[2] = now

\* C11: Vote on a transaction whose session is nil panics before any
\* statement: the transaction has written and recorded nothing, its view of
\* table vote stays as it was, no vote row carries the nil session, and the
\* call never counts as a Vote that returned nil.
PanicOnNil_C11 ==
    /\ [](/\ \A t \in Txs :
                txS[t] = NoSession
                   => /\ txWrote[t] = {}
                      /\ txLast[t].op # "Vote"
          /\ \A t \in Txs : txpc[t] = "panicked" => txS[t] = NoSession
          /\ \A v \in vote : v.session_id # NoSession
          /\ \A t \in Txs : \A v \in txVotes[t] : v.session_id # NoSession)
    /\ [][\A t \in Txs :
              (txpc[t] = "open" /\ txS[t] = NoSession /\ txpc'[t] # "none")
                 => /\ txVotes'[t] = txVotes[t]
                    /\ txpc'[t] \in {"open", "panicked"}]_vars

\* C11: a request without a session has panicked in Vote while another
\* request's vote is in the table
Witness_C11 ==
    \E t \in Txs :
       /\ txpc[t] = "panicked"
       /\ txS[t] = NoSession
       /\ vote # {}
       /\ txVotes[t] = vote

\* C12: once ctx is cancelled, cacheUpdater starts no further refresh cycle:
\* from its select it never goes on to updateAllSensorStatuses, also when
\* tick.C holds a tick at that moment.
NoCycleAfterCancel_C12 ==
    [][(ctxDone /\ pc = "select") => pc' # "update"]_vars

\* the positions at which a fetch goroutine has ended, or was never started
FetchEnded == {"idle", "dropped", "stored", "failed"}

\* how often e occurs in the errors collected
TimesIn(e) == Cardinality({i \in 1..Len(errs) : errs[i] = e})

\* C13: updateAllSensorStatuses returns only when the enumerating goroutine
\* and every fetch goroutine have ended; what it returns holds one error for
\* each fetch that failed, the enumeration's error if it failed, and nothing
\* else; errCh is closed once, by the closing goroutine after the group has
\* drained, and no goroutine is left to send on it afterwards.
FanIn_C13 ==
    /\ [](pc \in {"cleanup", "select", "done"}
            => /\ epc = "exit"
               /\ cpc = "exit"
               /\ wg = 0
               /\ errClosed
               /\ \A row \in AllRows :
                     /\ fpc[row] \in FetchEnded
                     /\ TimesIn(FetchError(row))
                           = IF fpc[row] = "failed" THEN 1 ELSE 0
               /\ TimesIn(EnumError) <= 1
               /\ \A i \in 1..Len(errs) :
                     errs[i] \in {EnumError} \cup {FetchError(row) : row \in AllRows}
               /\ TimesIn(EnumError) = 1 => \A row \in AllRows : fpc[row] = "idle")
    /\ [](errClosed
            => /\ epc # "send"
               /\ \A row \in AllRows : fpc[row] \in FetchEnded)
    /\ [][/\ (epc = "send" /\ epc' = "exit") => errs' = Append(errs, EnumError)
          /\ (errClosed' /\ ~errClosed)
                => (cpc = "wait" /\ cpc' = "exit" /\ wg = 0)
          /\ (errClosed /\ ~errClosed') => (pc = "update" /\ pc' = "collect")
          /\ errs' # errs
                => \/ (pc = "update" /\ errs' = <<>>)
                   \/ (pc = "collect" /\ ~errClosed /\ Len(errs') = Len(errs) + 1)
      ]_vars

\* C13: updateAllSensorStatuses has returned the error of one fetch while
\* another fetch of the call stored its reading
Witness_C13 ==
    /\ pc = "cleanup"
    /\ \E r1 \in thing, r2 \in thing :
          /\ fpc[r1] = "failed"
          /\ fpc[r2] = "stored"
          /\ errs = <<FetchError(r1)>>

\* C14: a fetch that fails changes no cache entry and no other goroutine: its
\* error goes to the caller's collection and nothing else moves; the other
\* fetches of the cycle can still return and store, the enumeration can
\* still launch the remaining rows, and the loop ends only by cancellation.
NonFatal_C14 ==
    /\ [][\A row \in AllRows :
              /\ (fpc[row] = "fetch" /\ fpc'[row] = "send")
                    => /\ UNCHANGED <<sensorCache, cacheLock, pc, epc, rowsLeft,
                                      errs, errClosed, session>>
                       /\ \A r2 \in AllRows \ {row} : fpc'[r2] = fpc[r2]
              /\ (fpc[row] = "send" /\ fpc'[row] = "failed")
                    => /\ UNCHANGED <<sensorCache, cacheLock, pc, epc, rowsLeft,
                                      errClosed, session>>
                       /\ errs' = Append(errs, FetchError(row))
                       /\ \A r2 \in AllRows \ {row} : fpc'[r2] = fpc[r2]
          ]_vars
    /\ [](\A row \in AllRows :
             fpc[row] \in {"send", "failed"}
                => /\ \A r2 \in AllRows \ {row} :
                         /\ fpc[r2] = "fetch" => ENABLED FetchReturn(r2)
                         /\ fpc[r2] = "locked" => ENABLED FetchStore(r2)
                   /\ (epc = "rows" /\ rowsLeft # {}) => ENABLED EnumNext
                   /\ pc = "cleanup" => ENABLED CleanUp
                   /\ (pc = "select" /\ tickC) => ENABLED SelectTick)
    /\ [](pc = "done" => ctxDone)

\* C14: after a cycle in which one fetch failed and another stored its
\* reading next to an older entry, cleanup has run and the next cycle is
\* about to start
Witness_C14 ==
    /\ pc = "update"
    /\ cleanErr = "nil"
    /\ \E r1 \in thing, r2 \in thing :
          /\ fpc[r1] = "failed"
          /\ fpc[r2] = "stored"
          /\ r1[1] \in DOMAIN sensorCache
          /\ r1[2] \in DOMAIN sensorCache[r1[1]]

\* C15: when the enumeration of a cycle fails, the cycle ends early: by the
\* time the loop waits at its select no fetch was launched and no session
\* cleanup was performed in that cycle.
StepOneFailure_C15 ==
    (pc = "select" /\ TimesIn(EnumError) = 1)
       => /\ \A row \in AllRows : fpc[row] = "idle"
          /\ cleanErr = ""

\* C16: the session cleanup of a cycle starts only after every fetch of the
\* cycle has ended, and a cycle starts only after the cleanup of the cycle
\* before it: outside updateAllSensorStatuses no goroutine of a cycle is
\* alive, the loop moves update, collect, cleanup, select in this order, and
\* a fetch for a (room, sensor) pair is launched only when none is in flight.
CycleOrder_C16 ==
    /\ [](pc \in {"update", "cleanup", "select", "done"}
            => /\ \A row \in AllRows : fpc[row] \in FetchEnded
               /\ epc \in {"idle", "exit"}
               /\ cpc \in {"idle", "exit"}
               /\ wg = 0
               /\ cacheLock.writers = {})
    /\ [][/\ (pc' = "collect" /\ pc # "collect") => pc = "update"
          /\ (pc' = "cleanup" /\ pc # "cleanup") => (pc = "collect" /\ errClosed)
          /\ (pc' = "select" /\ pc # "select")
                => (pc = "cleanup" /\ cleanErr' \in {"nil", "err"})
          /\ (pc' = "update" /\ pc # "update")
                => (pc = "select" /\ cleanErr \in {"nil", "err"})
          /\ \A row \in AllRows :
                (fpc'[row] = "fetch" /\ fpc[row] # "fetch")
                   => (fpc[row] = "idle" /\ pc = "collect")
      ]_vars

\* C16: in a cycle after the first, two fetches have ended and the cleanup
\* is about to start
Witness_C16 ==
    /\ pc = "cleanup"
    /\ now > StartTime
    /\ Cardinality({row \in thing : fpc[row] \in FetchEnded \ {"idle"}}) = 2
    /\ DOMAIN sensorCache # {}

\* C17: a goroutine inside ThingWorxClient.Properties holds neither side of
\* cacheLock: the write side is held exactly by the goroutines between
\* Lock and Unlock, the read side exactly by the readers between RLock and
\* RUnlock, so that while fetches are in progress a reader can take the lock
\* whenever no writer is storing, and a goroutine ready to store can take it
\* whenever nobody holds it.
NoLockAcrossFetch_C17 ==
    /\ \A row \in AllRows : fpc[row] = "fetch" => row \notin cacheLock.writers
    /\ cacheLock.writers = {row \in AllRows : fpc[row] = "locked"}
    /\ cacheLock.readers = {q \in Readers : rpc[q] = "rlocked"}
    /\ (\E row \in AllRows : fpc[row] = "fetch")
          => /\ \A q \in Readers, id \in Rooms :
                   (rpc[q] = "idle" /\ \A r2 \in AllRows : fpc[r2] # "locked")
                      => ENABLED GetRLock(q, id)
             /\ \A r2 \in AllRows :
                   (/\ fpc[r2] = "lock"
                    /\ \A r3 \in AllRows : fpc[r3] # "locked"
                    /\ \A q \in Readers : rpc[q] = "idle")
                      => ENABLED FetchLock(r2)

\* C17: one fetch is inside the round trip while another goroutine of the
\* cycle holds the write lock
Witness_C17 ==
    \E row \in thing, r2 \in thing :
       /\ fpc[row] = "fetch"
       /\ fpc[r2] = "locked"
       /\ r2 \in cacheLock.writers

\* C18: at most one goroutine is between Lock and Unlock, and none while a
\* reader is between RLock and RUnlock; readers overlap only with readers;
\* every goroutine at a cache access holds cacheLock in the matching mode,
\* and the cache changes only in the step of the goroutine that holds the
\* write lock, with no reader inside.
MutualExclusion_C18 ==
    /\ [](/\ Cardinality({row \in AllRows : fpc[row] = "locked"}) <= 1
          /\ (\E row \in AllRows : fpc[row] = "locked")
                => \A q \in DOMAIN rpc : rpc[q] # "rlocked"
          /\ Cardinality(cacheLock.writers) <= 1
          /\ cacheLock.writers # {} => cacheLock.readers = {}
          /\ \A row \in AllRows : fpc[row] = "locked" <=> row \in cacheLock.writers
          /\ \A q \in DOMAIN rpc : rpc[q] = "rlocked" <=> q \in cacheLock.readers)
    /\ [][sensorCache' # sensorCache
             => /\ cacheLock.readers = {}
                /\ \A q \in DOMAIN rpc : rpc[q] = "idle"
                /\ \E row \in cacheLock.writers :
                      /\ fpc[row] = "locked"
                      /\ fpc'[row] = "stored"
                      /\ \A r2 \in AllRows \ {row} : fpc[r2] # "locked"]_vars

\* C18: two readers are inside getSensorStatusFromCache at once while a
\* fetch goroutine waits for the write lock and the other has stored
Witness_C18 ==
    /\ \A q \in ManyReaders : rpc[q] = "rlocked"
    /\ \E row \in thing, r2 \in thing :
          /\ fpc[row] = "lock"
          /\ fpc[r2] = "stored"

\* C19: under fair scheduling, with every fetch and database call returning,
\* every call of updateAllSensorStatuses returns, whatever the number of
\* sensors and whichever fetches or enumeration steps fail: the enumerating
\* goroutine, every fetch goroutine and the closing goroutine end, none
\* stays blocked on errCh or on the wait group.
FanInReturns_C19 ==
    /\ (pc = "collect") ~> (pc = "cleanup")
    /\ [](pc = "cleanup"
            => /\ epc = "exit"
               /\ cpc = "exit"
               /\ wg = 0
               /\ \A row \in AllRows : fpc[row] \in FetchEnded)

\* C19: a call has returned after both of its fetches failed
Witness_C19 ==
    /\ pc = "cleanup"
    /\ Len(errs) = 2
    /\ \A row \in thing : fpc[row] = "failed"

\* C20: under fair scheduling, once ctx is cancelled cacheUpdater returns;
\* it returns only from its select and only when ctx is cancelled; and while
\* ctx is not cancelled a tick in tick.C is taken by the loop, which starts
\* the next cycle.
Termination_C20 ==
    /\ ctxDone ~> (pc = "done")
    /\ [][(pc' = "done" /\ pc # "done") => (pc = "select" /\ ctxDone)]_vars
    /\ [](pc = "done" => ctxDone)
    /\ (tickC /\ ~ctxDone) ~> (~tickC \/ ctxDone)
    /\ [][(tickC /\ ~tickC') => (pc = "select" /\ pc' = "update")]_vars

\* C20: cacheUpdater has returned in a cycle after the first, a tick still
\* waiting in tick.C
Witness_C20 ==
    /\ pc = "done"
    /\ ctxDone
    /\ tickC
    /\ sensorCache # EmptyMap

====
